---- MODULE Spec2Model ----
\* GitHubContributionVerifier (contracts/src/GitHubContributionVerifier.sol):
\* the submitContribution pipeline  abi.decode -> extraction -> field checks
\* -> VERIFIER.verify -> ledger write -> ContributionVerified event,
\* modelled at the granularity of 32-byte ABI words and single bytes.
EXTENDS Integers, Sequences, FiniteSets, TLC

\* ---------------------------------------------------------------------
\* Bounds of the model
\* ---------------------------------------------------------------------
\* number of submitContribution transactions in one behaviour
MaxCalls == 2

\* ---------------------------------------------------------------------
\* 32-byte words and byte strings
\* ---------------------------------------------------------------------
\* A word is one of
\*   "u": an unsigned integer smaller than 2^31 (big-endian, high bytes zero)
\*   "h": a hash-like 32-byte value none of whose bytes is a text byte
\*   "s": up to 32 string bytes, left aligned and zero padded
U(x) == [k |-> "u", n |-> x, c |-> <<>>]
H(id) == [k |-> "h", n |-> id, c |-> <<>>]
S(chars) == IF chars = <<>> THEN U(0) ELSE [k |-> "s", n |-> 0, c |-> chars]

\* result of reading a 256-bit number that does not fit 31 bits
Huge == -1

Pow256(e) == IF e = 0 THEN 1 ELSE IF e = 1 THEN 256 ELSE IF e = 2 THEN 65536 ELSE 16777216

\* the i-th byte (1..32) of a word; the bytes of an "h" word are opaque
\* symbols above 255
WordByte(w, i) ==
    IF w.k = "s" THEN (IF i <= Len(w.c) THEN w.c[i] ELSE 0)
    ELSE IF w.k = "h" THEN 256 + 32 * w.n + i
    ELSE IF i <= 28 THEN 0
    ELSE (w.n \div Pow256(32 - i)) % 256

\* journalData is [w: sequence of words, n: length in bytes]; the last word
\* may be cut short (n < 32 * Len(w)); a read past the last word gives zero
ByteAt(d, pos) ==
    IF pos >= 32 * Len(d.w) THEN 0
    ELSE WordByte(d.w[(pos \div 32) + 1], (pos % 32) + 1)

BytesAt(d, off, len) == [i \in 1..len |-> ByteAt(d, off + i - 1)]

\* calldataload(off) read as a number: the value when it is below 2^31,
\* Huge otherwise
ReadUint(d, off) ==
    LET b == BytesAt(d, off, 32)
    IN IF (\E i \in 1..28 : b[i] # 0) \/ b[29] >= 128 THEN Huge
       ELSE b[29] * 16777216 + b[30] * 65536 + b[31] * 256 + b[32]

\* calldataload(off) of a head slot (off is a multiple of 32)
ReadWord(d, off) == d.w[(off \div 32) + 1]

\* ---------------------------------------------------------------------
\* abi.decode(journalData, (bytes32, string, uint256, bytes32, string[]))
\* ---------------------------------------------------------------------
DecodeFail == [ok |-> FALSE, v |-> <<>>]

\* DecodeString without the check that the content ends inside the data
DecodeString_NoEndCheck(d, off) ==
    IF off = Huge \/ off + 32 > d.n THEN [ok |-> FALSE, v |-> <<>>]
    ELSE LET len == ReadUint(d, off)
         IN IF len = Huge THEN [ok |-> FALSE, v |-> <<>>]
            ELSE [ok |-> TRUE, v |-> BytesAt(d, off + 32, len)]

\* abi_decode_t_string: the length word must lie inside the data, the
\* length must be a sane number and the content must end inside the data;
\* padding after the content is not looked at
DecodeString(d, off) ==
    IF off = Huge \/ off + 32 > d.n THEN DecodeFail
    ELSE LET len == ReadUint(d, off)
         IN IF len = Huge \/ off + 32 + len > d.n THEN DecodeFail
            ELSE [ok |-> TRUE, v |-> BytesAt(d, off + 32, len)]

\* DecodeStringArray with the element offsets taken from the length word
\* instead of from the first offset slot
DecodeStringArray_BaseAtLength(d, off) ==
    IF off = Huge \/ off + 32 > d.n THEN DecodeFail
    ELSE LET len == ReadUint(d, off)
         IN IF len = Huge \/ off + 32 + 32 * len > d.n THEN DecodeFail
            ELSE LET inner(i) == ReadUint(d, off + 32 + 32 * (i - 1))
                     elem(i) == IF inner(i) = Huge THEN DecodeFail
                                ELSE DecodeString(d, off + inner(i))
                 IN IF \E i \in 1..len : ~elem(i).ok THEN DecodeFail
                    ELSE [ok |-> TRUE, v |-> [i \in 1..len |-> elem(i).v]]

\* abi_decode_t_array of string: length word, then one offset per element
\* relative to the first offset slot, each pointing at a string
DecodeStringArray(d, off) ==
    IF off = Huge \/ off + 32 > d.n THEN DecodeFail
    ELSE LET len == ReadUint(d, off)
             base == off + 32
         IN IF len = Huge \/ base + 32 * len > d.n THEN DecodeFail
            ELSE LET inner(i) == ReadUint(d, base + 32 * (i - 1))
                     elem(i) == IF inner(i) = Huge THEN DecodeFail
                                ELSE DecodeString(d, base + inner(i))
                 IN IF \E i \in 1..len : ~elem(i).ok THEN DecodeFail
                    ELSE [ok |-> TRUE, v |-> [i \in 1..len |-> elem(i).v]]

HeadSize5 == 160

\* the five-field decode of submitContribution
AbiDecode5(d) ==
    IF d.n < HeadSize5 THEN DecodeFail
    ELSE LET url == DecodeString(d, ReadUint(d, 32))
             arr == DecodeStringArray(d, ReadUint(d, 128))
         IN IF ~url.ok \/ ~arr.ok THEN DecodeFail
            ELSE [ok |-> TRUE,
                  v |-> [notaryKeyFingerprint |-> ReadWord(d, 0),
                         url |-> url.v,
                         timestamp |-> ReadWord(d, 64),
                         queriesHash |-> ReadWord(d, 96),
                         extractedValues |-> arr.v]]

\* ---------------------------------------------------------------------
\* abi.encode / encodeAbiParameters, used by the callers to build journals
\* ---------------------------------------------------------------------
NChunks(s) == (Len(s) + 31) \div 32

Min(a, b) == IF a < b THEN a ELSE b

\* length word followed by the content in zero padded 32-byte chunks
EncodeString(s) ==
    <<U(Len(s))>> \o [i \in 1..NChunks(s) |->
                        S(SubSeq(s, 32 * (i - 1) + 1, Min(32 * i, Len(s))))]

StringSize(s) == 32 * (1 + NChunks(s))

RECURSIVE SizeOfStrings(_)
SizeOfStrings(ss) ==
    IF ss = <<>> THEN 0 ELSE StringSize(Head(ss)) + SizeOfStrings(Tail(ss))

RECURSIVE ConcatStrings(_)
ConcatStrings(ss) ==
    IF ss = <<>> THEN <<>> ELSE EncodeString(Head(ss)) \o ConcatStrings(Tail(ss))

EncodeStringArray(ss) ==
    <<U(Len(ss))>>
    \o [i \in 1..Len(ss) |-> U(32 * Len(ss) + SizeOfStrings(SubSeq(ss, 1, i - 1)))]
    \o ConcatStrings(ss)

Bytes(words) == [w |-> words, n |-> 32 * Len(words)]

\* (bytes32, string, uint256, bytes32, string[])
Encode5(fp, url, ts, qh, values) ==
    Bytes(<<fp, U(HeadSize5), ts, qh, U(HeadSize5 + StringSize(url))>>
          \o EncodeString(url) \o EncodeStringArray(values))

\* (bytes32, string, string, uint256, bytes32, string, string, uint256)
Encode8(fp, method, url, ts, qh, repo, user, contributions) ==
    Bytes(<<fp, U(256), U(256 + StringSize(method)), ts, qh,
            U(256 + StringSize(method) + StringSize(url)),
            U(256 + StringSize(method) + StringSize(url) + StringSize(repo)),
            U(contributions)>>
          \o EncodeString(method) \o EncodeString(url)
          \o EncodeString(repo) \o EncodeString(user))

\* the first n bytes of a byte string
Truncate(d, n) == [w |-> SubSeq(d.w, 1, (n + 31) \div 32), n |-> n]

\* the byte string with head slot i (1-based) replaced
WithWord(d, i, word) == [d EXCEPT !.w[i] = word]

\* ---------------------------------------------------------------------
\* The contract: constants, pure helpers
\* ---------------------------------------------------------------------
IMAGE_ID == H(9)

MAX_CONTRIBUTIONS == 1000000

\* bytes of the digits '0' and '9'
DIGIT_0 == 48
DIGIT_9 == 57

\* sha256 and keccak256 as collision-free functions of their argument
Sha256(x) == <<"sha256", x>>
Keccak256(x) == <<"keccak256", x>>

\* toHexString / bytesToHexString / uintToString render a value as text; the
\* rendering is kept symbolic (bytesToHexString keeps the first 32 bytes)
toHexString(v) == <<"hex", v>>
bytesToHexString(b) == <<"hex", SubSeq(b, 1, Min(32, Len(b)))>>
uintToString(v) == <<"dec", v>>

\* parseUint: every byte must be a decimal digit; the empty string is 0
RECURSIVE ParseFrom(_, _, _)
ParseFrom(b, i, result) ==
    IF i > Len(b) THEN [ok |-> TRUE, v |-> result]
    ELSE IF ~(b[i] >= DIGIT_0 /\ b[i] <= DIGIT_9) THEN [ok |-> FALSE, v |-> 0]
    ELSE ParseFrom(b, i + 1, result * 10 + (b[i] - DIGIT_0))

parseUint(s) == ParseFrom(s, 1, 0)

\* contains(source, substring) of the earlier contract: substring occurs
\* in source at some position
contains(source, substring) ==
    IF Len(substring) > Len(source) THEN FALSE
    ELSE \E i \in 0..(Len(source) - Len(substring)) :
            \A j \in 1..Len(substring) : source[i + j] = substring[j]

\* the url check as a substring test
UrlMatches_Contains(url, pattern) == contains(url, pattern)

\* the url check compares hashes of the two strings
UrlMatches(url, pattern) == Keccak256(url) = Keccak256(pattern)

\* the contributions check with the upper bound exclusive
ContributionsInvalid_UpperExclusive(c) == c = 0 \/ c >= MAX_CONTRIBUTIONS

\* the contributions check without the lower bound
ContributionsInvalid_ZeroAllowed(c) == c > MAX_CONTRIBUTIONS

\* the contributions check
ContributionsInvalid(c) == c = 0 \/ c > MAX_CONTRIBUTIONS

\* the field checks without the queries hash check
FieldError_NoQueriesHash(fp, qh, url, c, expFp, expQh, pattern) ==
    IF fp # expFp THEN "InvalidNotaryKeyFingerprint"
    ELSE IF ~UrlMatches(url, pattern) THEN "InvalidUrl"
    ELSE IF ContributionsInvalid(c) THEN "InvalidContributions"
    ELSE "none"

\* the field checks with the url checked before the queries hash
FieldError_UrlFirst(fp, qh, url, c, expFp, expQh, pattern) ==
    IF fp # expFp THEN "InvalidNotaryKeyFingerprint"
    ELSE IF ~UrlMatches(url, pattern) THEN "InvalidUrl"
    ELSE IF qh # expQh THEN "InvalidQueriesHash"
    ELSE IF ContributionsInvalid(c) THEN "InvalidContributions"
    ELSE "none"

\* the field checks without the url check
FieldError_NoUrl(fp, qh, url, c, expFp, expQh, pattern) ==
    IF fp # expFp THEN "InvalidNotaryKeyFingerprint"
    ELSE IF qh # expQh THEN "InvalidQueriesHash"
    ELSE IF ContributionsInvalid(c) THEN "InvalidContributions"
    ELSE "none"

\* the four field checks in source order; "none" when all pass
FieldError(fp, qh, url, c, expFp, expQh, pattern) ==
    IF fp # expFp THEN "InvalidNotaryKeyFingerprint"
    ELSE IF qh # expQh THEN "InvalidQueriesHash"
    ELSE IF ~UrlMatches(url, pattern) THEN "InvalidUrl"
    ELSE IF ContributionsInvalid(c) THEN "InvalidContributions"
    ELSE "none"

\* the selector the verifier contract answers to SELECTOR(), as bytes
VerifierSelector == <<255, 255, 255, 255>>

\* the text passed to ZKProofVerificationFailed by the two catch clauses
VerifyErrorMsg(ans, seal, journalDigest) ==
    LET receivedSelector == IF Len(seal) >= 4 THEN SubSeq(seal, 1, 4) ELSE <<0, 0, 0, 0>>
        receivedClaimDigest == IF Len(seal) >= 36 THEN SubSeq(seal, 5, 36) ELSE <<>>
        expectedClaimDigest ==
            Sha256(<<1, 0, IMAGE_ID, Sha256(<<journalDigest, 0>>)>>)
        common == <<toHexString(IMAGE_ID), toHexString(VerifierSelector),
                    toHexString(receivedSelector), toHexString(expectedClaimDigest),
                    toHexString(receivedClaimDigest), toHexString(journalDigest),
                    uintToString(Len(seal)), bytesToHexString(seal)>>
    IN IF ans.kind = "Error"
       THEN <<"Verification failed: ", ans.data>> \o common
       ELSE <<"Verification failed (low-level)">> \o common
                 \o <<bytesToHexString(ans.data)>>

\* the verifier call with its failure swallowed
VerifyError_Swallowed(ans) == "none"

\* the verifier call with only the catch Error(string) clause: another
\* failure propagates as it is
VerifyError_NoLowLevelCatch(ans) ==
    IF ans.kind = "ok" THEN "none"
    ELSE IF ans.kind = "Error" THEN "ZKProofVerificationFailed"
    ELSE "Revert"

\* try VERIFIER.verify(seal, IMAGE_ID, journalDigest): "none" when the call
\* returns, ZKProofVerificationFailed when it fails in either way
VerifyError(ans) ==
    IF ans.kind = "ok" THEN "none" ELSE "ZKProofVerificationFailed"

\* a reverted transaction: no storage write, no log
Reverted(err, msg, calls) ==
    [error |-> err, msg |-> msg, verifyCalls |-> calls,
     writes |-> <<>>, logs |-> <<>>]

\* the tail of the transaction without the storage write
Accepted_NoStore(f, blk, calls) ==
    [error |-> "none", msg |-> <<>>, verifyCalls |-> calls,
     writes |-> <<>>,
     logs |-> <<[username |-> f.username, contributions |-> f.contributions,
                 repoUrl |-> f.url, timestamp |-> f.timestamp,
                 blockNumber |-> blk]>>]

\* the tail of the transaction with the event emitted twice
Accepted_TwoEvents(f, blk, calls) ==
    LET log == [username |-> f.username, contributions |-> f.contributions,
                repoUrl |-> f.url, timestamp |-> f.timestamp,
                blockNumber |-> blk]
    IN [error |-> "none", msg |-> <<>>, verifyCalls |-> calls,
        writes |-> <<[repo |-> f.repoNameWithOwner, user |-> f.username,
                      value |-> f.contributions]>>,
        logs |-> <<log, log>>]

\* the tail of the transaction with the repository in the event where the
\* url belongs
Accepted_EventRepository(f, blk, calls) ==
    [error |-> "none", msg |-> <<>>, verifyCalls |-> calls,
     writes |-> <<[repo |-> f.repoNameWithOwner, user |-> f.username,
                   value |-> f.contributions]>>,
     logs |-> <<[username |-> f.username, contributions |-> f.contributions,
                 repoUrl |-> f.repoNameWithOwner, timestamp |-> f.timestamp,
                 blockNumber |-> blk]>>]

\* the tail of a transaction that got past the verifier: one storage write
\* and one ContributionVerified log
Accepted(f, blk, calls) ==
    [error |-> "none", msg |-> <<>>, verifyCalls |-> calls,
     writes |-> <<[repo |-> f.repoNameWithOwner, user |-> f.username,
                   value |-> f.contributions]>>,
     logs |-> <<[username |-> f.username, contributions |-> f.contributions,
                 repoUrl |-> f.url, timestamp |-> f.timestamp,
                 blockNumber |-> blk]>>]

NoFields(err, msg) ==
    [error |-> err, msg |-> msg, notaryKeyFingerprint |-> U(0), url |-> <<>>,
     timestamp |-> U(0), queriesHash |-> U(0), repoNameWithOwner |-> <<>>,
     username |-> <<>>, contributions |-> 0]

\* contributions.toString(): the decimal digits of a number
RECURSIVE BigIntToString(_)
BigIntToString(n) ==
    IF n < 10 THEN <<DIGIT_0 + n>>
    ELSE Append(BigIntToString(n \div 10), DIGIT_0 + (n % 10))

\* the extraction with a missing value read as the empty string and a
\* string that is not a number read as 0, left to the field checks
ExtractValues_LenientParse(dec) ==
    IF ~dec.ok THEN NoFields("AbiDecode", <<>>)
    ELSE IF Len(dec.v.extractedValues) < 3 \/ ~parseUint(dec.v.extractedValues[3]).ok
    THEN [error |-> "none", msg |-> <<>>,
          notaryKeyFingerprint |-> dec.v.notaryKeyFingerprint,
          url |-> dec.v.url,
          timestamp |-> dec.v.timestamp,
          queriesHash |-> dec.v.queriesHash,
          repoNameWithOwner |-> <<>>,
          username |-> <<>>,
          contributions |-> 0]
    ELSE [error |-> "none", msg |-> <<>>,
          notaryKeyFingerprint |-> dec.v.notaryKeyFingerprint,
          url |-> dec.v.url,
          timestamp |-> dec.v.timestamp,
          queriesHash |-> dec.v.queriesHash,
          repoNameWithOwner |-> dec.v.extractedValues[1],
          username |-> dec.v.extractedValues[2],
          contributions |-> parseUint(dec.v.extractedValues[3]).v]

\* the extraction of repository, username and contributions from the
\* decoded string array
ExtractValues(dec) ==
    IF ~dec.ok THEN NoFields("AbiDecode", <<>>)
    ELSE IF Len(dec.v.extractedValues) < 3
    THEN NoFields("Error", <<"Invalid extracted values length">>)
    ELSE LET parsed == parseUint(dec.v.extractedValues[3])
         IN IF ~parsed.ok
            THEN NoFields("Error", <<"Invalid number string">>)
            ELSE [error |-> "none", msg |-> <<>>,
                  notaryKeyFingerprint |-> dec.v.notaryKeyFingerprint,
                  url |-> dec.v.url,
                  timestamp |-> dec.v.timestamp,
                  queriesHash |-> dec.v.queriesHash,
                  repoNameWithOwner |-> dec.v.extractedValues[1],
                  username |-> dec.v.extractedValues[2],
                  contributions |-> parsed.v]

\* the decode followed by the extraction
ExtractFields(journalData) == ExtractValues(AbiDecode5(journalData))

\* the transaction after the extraction with the verifier called before
\* the field checks
ValidateVerifyStore_VerifyFirst(f, journalDigest, seal, ans, blk, expFp, expQh, pattern) ==
    LET ferr == FieldError(f.notaryKeyFingerprint, f.queriesHash, f.url,
                           f.contributions, expFp, expQh, pattern)
        call == [seal |-> seal, imageId |-> IMAGE_ID,
                 journalDigest |-> journalDigest]
    IN IF f.error # "none" THEN Reverted(f.error, f.msg, <<>>)
       ELSE IF VerifyError(ans) # "none"
       THEN Reverted(VerifyError(ans), VerifyErrorMsg(ans, seal, journalDigest),
                     <<call>>)
       ELSE IF ferr # "none" THEN Reverted(ferr, <<>>, <<call>>)
       ELSE Accepted(f, blk, <<call>>)

\* the transaction after the extraction: the field checks, the verifier
\* call on the digest of the journal, the storage write and the log
ValidateVerifyStore(f, journalDigest, seal, ans, blk, expFp, expQh, pattern) ==
    LET ferr == FieldError(f.notaryKeyFingerprint, f.queriesHash, f.url,
                           f.contributions, expFp, expQh, pattern)
        call == [seal |-> seal, imageId |-> IMAGE_ID,
                 journalDigest |-> journalDigest]
    IN IF f.error # "none" THEN Reverted(f.error, f.msg, <<>>)
       ELSE IF ferr # "none" THEN Reverted(ferr, <<>>, <<>>)
       ELSE IF VerifyError(ans) # "none"
       THEN Reverted(VerifyError(ans), VerifyErrorMsg(ans, seal, journalDigest),
                     <<call>>)
       ELSE Accepted(f, blk, <<call>>)

\* submitContribution with the digest taken over the extracted fields
\* encoded again in the five-field layout
submitContribution_ReencodedDigest(journalData, seal, ans, blk, expFp, expQh, pattern) ==
    ValidateVerifyStore(ExtractFields(journalData),
                        Sha256(Encode5(ExtractFields(journalData).notaryKeyFingerprint,
                                       ExtractFields(journalData).url,
                                       ExtractFields(journalData).timestamp,
                                       ExtractFields(journalData).queriesHash,
                                       <<ExtractFields(journalData).repoNameWithOwner,
                                         ExtractFields(journalData).username,
                                         BigIntToString(ExtractFields(journalData).contributions)>>)),
                        seal, ans, blk, expFp, expQh, pattern)

\* submitContribution(journalData, seal) under a configuration, with the
\* verifier answering ans, in block blk: the error (or "none"), the calls
\* made to VERIFIER.verify, the storage writes and the logs that persist
submitContribution(journalData, seal, ans, blk, expFp, expQh, pattern) ==
    ValidateVerifyStore(ExtractFields(journalData), Sha256(journalData),
                        seal, ans, blk, expFp, expQh, pattern)

\* ---------------------------------------------------------------------
\* Inputs: field values, journals, seals, verifier answers
\* ---------------------------------------------------------------------
\* TEST_NOTARY_FINGERPRINT / TEST_QUERIES_HASH and the wrong value
\* bytes32(uint256(1)) of the tests
FP_GOOD == H(1)
QH_GOOD == H(2)
WRONG_BYTES32 == U(1)

\* short stand-ins for the strings of the tests, as ASCII bytes:
\* "h/g" for the configured url, "h/x" for another url, "h/g/" for a url
\* that extends the configured one
URL_GOOD == <<104, 47, 103>>
URL_OTHER == <<104, 47, 120>>
URL_EXT == <<104, 47, 103, 47>>
METHOD_POST == <<80>>

Repos == {<<118>>, <<111>>}
Users == {<<116>>, <<119>>}
REPO_1 == <<118>>
USER_1 == <<116>>

TS == U(5)

\* decimal strings "1", "1000000", "0", "1000001"
STR_1 == <<49>>
STR_MAX == <<49, 48, 48, 48, 48, 48, 48>>
STR_0 == <<48>>
STR_OVER == <<49, 48, 48, 48, 48, 48, 49>>

\* journals whose fields are all valid under the test configuration
ValidJournals ==
    {Encode5(FP_GOOD, URL_GOOD, TS, QH_GOOD, <<r, u, c>>) :
        r \in Repos, u \in Users, c \in {STR_1, STR_MAX}}

VALID_1 == Encode5(FP_GOOD, URL_GOOD, TS, QH_GOOD, <<REPO_1, USER_1, STR_1>>)

\* a valid journal with a fourth extracted value
VALID_4 == Encode5(FP_GOOD, URL_GOOD, TS, QH_GOOD, <<REPO_1, USER_1, STR_1, STR_0>>)

\* every combination of good and bad fields for one key, and the two
\* values just outside the contribution bounds
FieldJournals ==
    {Encode5(fp, url, TS, qh, <<REPO_1, USER_1, c>>) :
        fp \in {FP_GOOD, WRONG_BYTES32}, url \in {URL_GOOD, URL_OTHER},
        qh \in {QH_GOOD, WRONG_BYTES32}, c \in {STR_1, STR_0}}
    \cup {Encode5(FP_GOOD, URL_GOOD, TS, QH_GOOD, <<REPO_1, USER_1, STR_OVER>>),
          Encode5(FP_GOOD, URL_EXT, TS, QH_GOOD, <<REPO_1, USER_1, STR_1>>)}

\* journals that decode but whose extracted values are too few, not a
\* number ("7a", "/", ":"), empty, or one too many
ExtractJournals ==
    {Encode5(FP_GOOD, URL_GOOD, TS, QH_GOOD, vals) :
        vals \in {<<>>, <<REPO_1, USER_1>>, <<REPO_1, USER_1, <<55, 97>>>>,
                  <<REPO_1, USER_1, <<47>>>>, <<REPO_1, USER_1, <<58>>>>,
                  <<REPO_1, USER_1, <<>>>>,
                  <<REPO_1, USER_1, STR_1, STR_0>>}}
    \cup {Encode5(WRONG_BYTES32, URL_OTHER, TS, WRONG_BYTES32, vals) :
            vals \in {<<REPO_1, USER_1>>, <<REPO_1, USER_1, <<55, 97>>>>}}

\* byte strings that break the five-field layout: shorter than the head,
\* cut inside the last string, cut inside an unused fourth value, an offset
\* that is not a small number, is not aligned, or points at or before the
\* head
BrokenJournals ==
    {Truncate(VALID_1, n) : n \in {0, 159, VALID_1.n - 33, VALID_1.n - 32}}
    \cup {WithWord(VALID_1, 2, H(3)), WithWord(VALID_1, 2, U(33)),
          WithWord(VALID_1, 5, U(VALID_1.n)), WithWord(VALID_1, 5, U(0)),
          Truncate(VALID_4, VALID_4.n - 32)}

\* the broken byte strings, and one that only lacks the padding of its
\* last string
MalformedJournals ==
    BrokenJournals \cup {Truncate(VALID_1, VALID_1.n - 31)}

\* journals in the eight-field and in other layouts
JOURNAL_8 == Encode8(FP_GOOD, METHOD_POST, URL_GOOD, TS, QH_GOOD, REPO_1, USER_1, 1)

OtherLayoutJournals ==
    {JOURNAL_8,
     Encode8(FP_GOOD, URL_GOOD, URL_GOOD, WRONG_BYTES32, WRONG_BYTES32,
             REPO_1, USER_1, 1)}

Journals ==
    ValidJournals \cup FieldJournals \cup ExtractJournals
    \cup MalformedJournals \cup OtherLayoutJournals

\* the empty seal of the tests and a selector followed by a claim digest
SEAL_EMPTY == <<>>
SEAL_FULL == <<255, 255, 255, 255>> \o [i \in 1..32 |-> 7]
Seals == {SEAL_EMPTY, SEAL_FULL}

\* what VERIFIER.verify does: return, revert with Error(string), or fail
\* with other return data (custom error, panic, empty revert)
ANS_OK == [kind |-> "ok", data |-> <<>>]
ANS_ERROR == [kind |-> "Error", data |-> <<"Verification failed">>]
ANS_LOWLEVEL == [kind |-> "lowLevel", data |-> <<>>]
Answers == {ANS_OK, ANS_ERROR, ANS_LOWLEVEL}

\* the seals submitted and what the verifier does with each
Proofs ==
    {<<SEAL_EMPTY, ANS_OK>>, <<SEAL_FULL, ANS_OK>>,
     <<SEAL_EMPTY, ANS_ERROR>>, <<SEAL_FULL, ANS_LOWLEVEL>>}

\* constructor arguments of the deployments considered: the configuration
\* of the tests, and one that expects the other fingerprint, hash and url
DeployArgs ==
    {[verifier |-> "mockVerifier", fp |-> FP_GOOD, qh |-> QH_GOOD,
      url |-> URL_GOOD],
     [verifier |-> "riscZeroMock", fp |-> WRONG_BYTES32, qh |-> WRONG_BYTES32,
      url |-> URL_OTHER]}

\* ---------------------------------------------------------------------
\* State
\* ---------------------------------------------------------------------
VARIABLES
    VERIFIER,                        \* immutable verifier address
    EXPECTED_NOTARY_KEY_FINGERPRINT, \* immutable
    EXPECTED_QUERIES_HASH,           \* immutable
    expectedUrlPattern,              \* storage string
    contributionsByRepoAndUser,      \* storage mapping, as a function on the keys written
    events,                          \* the ContributionVerified logs, in order
    blockNumber,                     \* block.number of the latest block
    nCalls,                          \* submitContribution transactions so far
    nAccepted,                       \* of which did not revert
    lastTx,                          \* arguments and result of the latest transaction
    writtenBy,                       \* per key, the transaction that stored its value
    pending,                         \* per caller, the transaction sent and not yet mined
    nSent,                           \* transactions sent so far
    applied,                         \* the mined transactions of the callers, in mined order
    totalVerifiedContributions,      \* global counter of recorded submissions
    contributionHistory              \* per username, the ContributionRecords in order

\* the client that builds a journal and the decode it is meant for
VARIABLES
    record,                          \* the public outputs a journal is built from
    journalBytes,                    \* the journal built from them
    decodedRecord                    \* what the contract extracts from the journal

\* the contract, its host and its ghost record
onchain == <<VERIFIER, EXPECTED_NOTARY_KEY_FINGERPRINT, EXPECTED_QUERIES_HASH,
             expectedUrlPattern, contributionsByRepoAndUser, events, blockNumber,
             nCalls, nAccepted, lastTx, writtenBy, pending, nSent, applied,
             totalVerifiedContributions, contributionHistory>>

codec == <<record, journalBytes, decodedRecord>>

\* one POST /api/prove request
VARIABLES
    routePc,                         \* where the handler is: idle, access, prove, done
    body,                            \* the request body and the token of the environment
    githubAnswer,                    \* what GitHub answered to the access check
    routeResponse,                   \* the response of the route
    proverCalls                      \* calls made to the Web Prover API

route == <<routePc, body, githubAnswer, routeResponse, proverCalls>>

\* the state of the useProveFlow hook and its handler calls under way
VARIABLES
    urlInput,                        \* the repository input: "", "unparsable", "ownerRepo"
    usernameInput,                   \* the username state: "" or "u"
    isProving,
    isVerifying,
    isCompressing,
    presentation,                    \* the presentation stored, by the prove call it came from
    pageResult,
    zkProofResult,
    errorMessage,                    \* the error state: "null" or the message
    running,                         \* handler calls that await their request
    nInvoked,                        \* handler calls made so far
    proveLog,                        \* how the handleProve calls that got past the url check ended
    lastCall                         \* the latest handler call or completion

flow == <<urlInput, usernameInput, isProving, isVerifying, isCompressing, presentation,
          pageResult, zkProofResult, errorMessage, running, nInvoked, proveLog, lastCall>>

\* the child processes of the e2e tests and the stopProcess calls on them
VARIABLES
    alive,                           \* the child has not exited
    killed,                          \* proc.killed: a signal was sent with proc.kill
    signal,                          \* the signal the child has got and not yet acted on
    exitListener,                    \* the once('exit') listener of stopProcess is registered
    killTimer,                       \* the SIGKILL timer: "none", "armed", "cleared", "fired"
    stop,                            \* the stopProcess call: "notCalled", "waiting", "resolved"
    nStops                           \* stopProcess calls made per process

process == <<alive, killed, signal, exitListener, killTimer, stop, nStops>>

\* everything outside the chain
offchain == <<codec, route, flow, process>>

vars == <<onchain, offchain>>

\* the callers' side: what is sent, and the order the host mined it in
mempool == <<pending, nSent, applied>>

config == <<VERIFIER, EXPECTED_NOTARY_KEY_FINGERPRINT, EXPECTED_QUERIES_HASH,
            expectedUrlPattern>>

\* reading the mapping: zero for a key never written
Stored(ledger, repo, user) ==
    IF <<repo, user>> \in DOMAIN ledger THEN ledger[<<repo, user>>] ELSE 0

\* a store that keeps the larger of the old and the new value
Store_KeepMax(ledger, repo, user, value) ==
    [k \in DOMAIN ledger \cup {<<repo, user>>} |->
        IF k = <<repo, user>>
        THEN (IF Stored(ledger, repo, user) > value
              THEN Stored(ledger, repo, user) ELSE value)
        ELSE ledger[k]]

\* a store that adds the value to the one already there
Store_Accumulate(ledger, repo, user, value) ==
    [k \in DOMAIN ledger \cup {<<repo, user>>} |->
        IF k = <<repo, user>> THEN Stored(ledger, repo, user) + value
        ELSE ledger[k]]

\* a store keyed by the username alone: every entry of the user is written
Store_ByUsername(ledger, repo, user, value) ==
    [k \in DOMAIN ledger \cup {<<repo, user>>} |->
        IF k[2] = user THEN value ELSE ledger[k]]

\* a store that writes only an entry that does not exist yet
Store_IfAbsent(ledger, repo, user, value) ==
    [k \in DOMAIN ledger \cup {<<repo, user>>} |->
        IF k \in DOMAIN ledger THEN ledger[k] ELSE value]

\* mapping[repo][user] = value
Store(ledger, repo, user, value) ==
    [k \in DOMAIN ledger \cup {<<repo, user>>} |->
        IF k = <<repo, user>> THEN value ELSE ledger[k]]

\* the elements of a sequence
Range(seq) == {seq[i] : i \in DOMAIN seq}

RECURSIVE ApplyWrites(_, _)
ApplyWrites(ledger, writes) ==
    IF writes = <<>> THEN ledger
    ELSE ApplyWrites(Store(ledger, Head(writes).repo, Head(writes).user,
                           Head(writes).value), Tail(writes))

NoTx == [journalData |-> Bytes(<<>>), seal |-> <<>>, ans |-> ANS_OK,
         result |-> Reverted("init", <<>>, <<>>)]

\* ContributionLedger.record and the read accessors: the counter and the
\* per-user history that the specification, the README and the older tests
\* describe
ContributionRecord(f, blk) ==
    [repository |-> f.repoNameWithOwner, username |-> f.username,
     contributions |-> f.contributions, timestamp |-> f.timestamp,
     blockHeight |-> blk, url |-> f.url]

getContributionHistory(history, username) ==
    IF username \in DOMAIN history THEN history[username] ELSE <<>>

getContributionCount(history, username) ==
    Len(getContributionHistory(history, username))

getLatestContribution(history, username) ==
    getContributionHistory(history, username)[getContributionCount(history, username)]

\* record: the counter goes up by one and the record is appended to the
\* history of its user
RecordTotal(total) == total + 1

RecordHistory(history, rec) ==
    [u \in DOMAIN history \cup {rec.username} |->
        IF u = rec.username
        THEN Append(getContributionHistory(history, u), rec)
        ELSE history[u]]

\* the wallets that send transactions, and the mark of a caller with
\* nothing outstanding
Callers == {"alice", "bob"}
NoPending == [seq |-> 0, journalData |-> Bytes(<<>>), seal |-> <<>>]

\* a constructor that stores the two hashes in each other's place
constructor_SwappedHashes(_verifier, _expectedNotaryKeyFingerprint, _expectedQueriesHash, _expectedUrlPattern) ==
    [VERIFIER |-> _verifier,
     EXPECTED_NOTARY_KEY_FINGERPRINT |-> _expectedQueriesHash,
     EXPECTED_QUERIES_HASH |-> _expectedNotaryKeyFingerprint,
     expectedUrlPattern |-> _expectedUrlPattern]

\* the constructor: the four assignments
constructor(_verifier, _expectedNotaryKeyFingerprint, _expectedQueriesHash, _expectedUrlPattern) ==
    [VERIFIER |-> _verifier,
     EXPECTED_NOTARY_KEY_FINGERPRINT |-> _expectedNotaryKeyFingerprint,
     EXPECTED_QUERIES_HASH |-> _expectedQueriesHash,
     expectedUrlPattern |-> _expectedUrlPattern]

\* a part of the client that has not started
NotYet == [error |-> "notYet"]

CodecIdle ==
    /\ record = NotYet
    /\ journalBytes = NotYet
    /\ decodedRecord = NotYet

RouteIdle ==
    /\ routePc = "idle"
    /\ body = NotYet
    /\ githubAnswer = NotYet
    /\ routeResponse = NotYet
    /\ proverCalls = 0

\* the presentation, result and proof of a hook that holds none
NoPresentation == [from |-> 0]
NoResult == [type |-> "null", from |-> 0]
NoZkProof == [from |-> 0, userData |-> FALSE]
NoCall == [handler |-> "none", kind |-> "none", id |-> 0, outcome |-> "none"]

\* the useState initial values
FlowIdle ==
    /\ urlInput = "ownerRepo"
    /\ usernameInput = ""
    /\ isProving = FALSE
    /\ isVerifying = FALSE
    /\ isCompressing = FALSE
    /\ presentation = NoPresentation
    /\ pageResult = NoResult
    /\ zkProofResult = NoZkProof
    /\ errorMessage = "null"
    /\ running = {}
    /\ nInvoked = 0
    /\ proveLog = <<>>
    /\ lastCall = NoCall

\* the processes the e2e tests start, and the handle of a process that was
\* never started (undefined)
Procs == {"next", "anvil"}
NoProc == "undefined"
Handles == Procs \cup {NoProc}

\* the processes right after startProcess
ProcessIdle ==
    /\ alive = [p \in Handles |-> p \in Procs]
    /\ killed = [p \in Handles |-> FALSE]
    /\ signal = [p \in Handles |-> "none"]
    /\ exitListener = [p \in Handles |-> FALSE]
    /\ killTimer = [p \in Handles |-> "none"]
    /\ stop = [p \in Handles |-> "notCalled"]
    /\ nStops = [p \in Handles |-> 0]

OffchainIdle == CodecIdle /\ RouteIdle /\ FlowIdle /\ ProcessIdle

\* the contract after the constructor, before any transaction
OnchainInit ==
    /\ \E a \in DeployArgs :
          /\ VERIFIER = constructor(a.verifier, a.fp, a.qh, a.url).VERIFIER
          /\ EXPECTED_NOTARY_KEY_FINGERPRINT =
                constructor(a.verifier, a.fp, a.qh, a.url).EXPECTED_NOTARY_KEY_FINGERPRINT
          /\ EXPECTED_QUERIES_HASH =
                constructor(a.verifier, a.fp, a.qh, a.url).EXPECTED_QUERIES_HASH
          /\ expectedUrlPattern =
                constructor(a.verifier, a.fp, a.qh, a.url).expectedUrlPattern
    /\ contributionsByRepoAndUser = <<>>
    /\ events = <<>>
    /\ blockNumber = 0
    /\ nCalls = 0
    /\ nAccepted = 0
    /\ lastTx = NoTx
    /\ writtenBy = <<>>
    /\ pending = [c \in Callers |-> NoPending]
    /\ nSent = 0
    /\ applied = <<>>
    /\ totalVerifiedContributions = 0
    /\ contributionHistory = <<>>

\* the state after the constructor
Init == OnchainInit /\ OffchainIdle

\* block numbers a transaction can be mined in
BlockNumbers == 1..MaxCalls

\* submitContribution evaluated once for every input, block and deployment
TxResults ==
    [k \in Journals \X Proofs \X BlockNumbers \X DeployArgs |->
        submitContribution(k[1], k[2][1], k[2][2], k[3], k[4].fp, k[4].qh, k[4].url)]
    @@ <<>>

\* the decoded and extracted fields of every input journal
JournalFields == [j \in Journals |-> ExtractFields(j)] @@ <<>>

\* the effect of one submitContribution transaction, mined in a block of
\* its own, on the contract and on the record of its transactions
Transaction(journalData, seal, ans) ==
    /\ nCalls < MaxCalls
    /\ lastTx' = [journalData |-> journalData, seal |-> seal, ans |-> ans,
                  result |-> TxResults[<<journalData, <<seal, ans>>, blockNumber + 1,
                                         [verifier |-> VERIFIER,
                                          fp |-> EXPECTED_NOTARY_KEY_FINGERPRINT,
                                          qh |-> EXPECTED_QUERIES_HASH,
                                          url |-> expectedUrlPattern]>>]]
    /\ nCalls' = nCalls + 1
    /\ nAccepted' = IF lastTx'.result.error = "none" THEN nAccepted + 1 ELSE nAccepted
    /\ contributionsByRepoAndUser' =
          ApplyWrites(contributionsByRepoAndUser, lastTx'.result.writes)
    /\ events' = events \o lastTx'.result.logs
    /\ writtenBy' =
          [k \in DOMAIN writtenBy
                   \cup {<<w.repo, w.user>> : w \in Range(lastTx'.result.writes)} |->
              IF k \in {<<w.repo, w.user>> : w \in Range(lastTx'.result.writes)}
              THEN lastTx' ELSE writtenBy[k]]
    /\ totalVerifiedContributions' =
          IF lastTx'.result.error = "none"
          THEN RecordTotal(totalVerifiedContributions)
          ELSE totalVerifiedContributions
    /\ contributionHistory' =
          IF lastTx'.result.error = "none"
          THEN RecordHistory(contributionHistory,
                             ContributionRecord(JournalFields[journalData],
                                                blockNumber + 1))
          ELSE contributionHistory
    /\ blockNumber' = blockNumber + 1
    /\ UNCHANGED config

\* one submitContribution transaction sent and mined at once
Submit(journalData, seal, ans) ==
    /\ Transaction(journalData, seal, ans)
    /\ UNCHANGED <<mempool, offchain>>

Next ==
    \E j \in Journals, p \in Proofs : Submit(j, p[1], p[2])

Spec == Init /\ [][Next]_vars

\* ---------------------------------------------------------------------
\* Several callers: transactions are sent, wait, and are mined in an
\* order the host chooses
\* ---------------------------------------------------------------------
\* the journals the callers send: two values for one key, the same
\* repository with another user, a journal with a wrong url and one with
\* no contributions
CallerJournals ==
    {Encode5(FP_GOOD, URL_GOOD, TS, QH_GOOD, <<REPO_1, USER_1, STR_1>>),
     Encode5(FP_GOOD, URL_GOOD, TS, QH_GOOD, <<REPO_1, USER_1, STR_MAX>>),
     Encode5(FP_GOOD, URL_GOOD, TS, QH_GOOD, <<REPO_1, <<119>>, STR_1>>),
     Encode5(FP_GOOD, URL_OTHER, TS, QH_GOOD, <<REPO_1, USER_1, STR_1>>),
     Encode5(FP_GOOD, URL_GOOD, TS, QH_GOOD, <<REPO_1, USER_1, STR_0>>)}

\* writeContractAsync: the caller hands a transaction to the host
Send(caller, journalData, seal) ==
    /\ pending[caller] = NoPending
    /\ nSent < MaxCalls
    /\ nSent' = nSent + 1
    /\ pending' = [pending EXCEPT ![caller] =
                      [seq |-> nSent + 1, journalData |-> journalData, seal |-> seal]]
    /\ UNCHANGED <<config, contributionsByRepoAndUser, events, blockNumber,
                   nCalls, nAccepted, lastTx, writtenBy, applied,
                   totalVerifiedContributions, contributionHistory, offchain>>

\* the host mines the transaction of one caller, whichever it picks
Mine(caller, ans) ==
    /\ pending[caller] # NoPending
    /\ Transaction(pending[caller].journalData, pending[caller].seal, ans)
    /\ applied' = Append(applied, [caller |-> caller, seq |-> pending[caller].seq,
                                   tx |-> lastTx'])
    /\ pending' = [pending EXCEPT ![caller] = NoPending]
    /\ UNCHANGED <<nSent, offchain>>

NextCallers ==
    \/ \E c \in Callers, j \in CallerJournals : Send(c, j, SEAL_EMPTY)
    \/ \E c \in Callers, ans \in {ANS_OK, ANS_ERROR} : Mine(c, ans)

SpecCallers == Init /\ [][NextCallers]_vars

\* ---------------------------------------------------------------------
\* The client builds a journal from public outputs; the contract decodes it
\* ---------------------------------------------------------------------
\* strings of 32 and of 33 bytes: one full chunk, and one byte more
STR_32 == [i \in 1..32 |-> 97]
STR_33 == [i \in 1..33 |-> 98]

\* the public outputs the client builds journals from
Records ==
    [notaryKeyFingerprint : {FP_GOOD, WRONG_BYTES32},
     url : {URL_GOOD, <<>>, STR_32, STR_33},
     timestamp : {TS, U(0)},
     queriesHash : {QH_GOOD},
     repoNameWithOwner : {REPO_1, STR_33},
     username : {USER_1, <<>>},
     contributions : {1, 10, 42, 999999, 1000000}]

\* buildJournalData, legacy path: the extracted values as strings, then
\* encodeAbiParameters over (bytes32, string, uint256, bytes32, string[])
buildJournalData(r) ==
    Encode5(r.notaryKeyFingerprint, r.url, r.timestamp, r.queriesHash,
            <<r.repoNameWithOwner, r.username, BigIntToString(r.contributions)>>)

InitCodec ==
    /\ OnchainInit
    /\ RouteIdle
    /\ FlowIdle
    /\ ProcessIdle
    /\ record \in Records
    /\ journalBytes = NotYet
    /\ decodedRecord = NotYet

\* the client encodes the record
Build ==
    /\ journalBytes = NotYet
    /\ journalBytes' = buildJournalData(record)
    /\ UNCHANGED <<onchain, route, flow, process, record, decodedRecord>>

\* the contract decodes the journal and extracts its fields
Decode ==
    /\ journalBytes # NotYet
    /\ decodedRecord = NotYet
    /\ decodedRecord' = ExtractFields(journalBytes)
    /\ UNCHANGED <<onchain, route, flow, process, record, journalBytes>>

NextCodec == Build \/ Decode

SpecCodec == InitCodec /\ [][NextCodec]_vars

\* ---------------------------------------------------------------------
\* POST /api/prove (app/api/prove/route.ts) and verifyRepositoryAccess
\* ---------------------------------------------------------------------
\* a field of the body: a non-empty string, absent or empty, or a truthy
\* value that is not a string
FieldValues == {"string", "missing", "nonString"}

Bodies ==
    [query : FieldValues, githubToken : FieldValues,
     envToken : {"string", "missing"}, owner : FieldValues, name : FieldValues]

\* what the fetch of the repository gives: a response with a status, or a
\* thrown error
GitHubOutcomes ==
    {[kind |-> "response", status |-> st] : st \in {200, 401, 403, 404, 500}}
    \cup {[kind |-> "throw", status |-> 0]}

\* what the fetch of the prover gives
ProverOutcomes ==
    {[kind |-> "response", status |-> st] : st \in {200, 500}}
    \cup {[kind |-> "throw", status |-> 0], [kind |-> "timeout", status |-> 0]}

\* verifyRepositoryAccess with the status 404 of GitHub passed on as it is
verifyRepositoryAccess_NotFoundPassedOn(outcome) ==
    IF outcome.kind = "throw"
    THEN [success |-> FALSE, error |-> "Failed to verify repository access", statusCode |-> 500]
    ELSE IF outcome.status = 404
    THEN [success |-> FALSE, error |-> "not found or access denied", statusCode |-> 404]
    ELSE IF outcome.status = 403
    THEN [success |-> FALSE, error |-> "no read access", statusCode |-> 403]
    ELSE IF outcome.status = 401
    THEN [success |-> FALSE, error |-> "Invalid or expired GitHub token", statusCode |-> 401]
    ELSE IF ~(outcome.status >= 200 /\ outcome.status <= 299)
    THEN [success |-> FALSE, error |-> "Failed to verify repository access", statusCode |-> 500]
    ELSE [success |-> TRUE, error |-> "", statusCode |-> 0]

\* verifyRepositoryAccess: the result for each status of the repository
\* fetch, and for a fetch that throws
verifyRepositoryAccess(outcome) ==
    IF outcome.kind = "throw"
    THEN [success |-> FALSE, error |-> "Failed to verify repository access", statusCode |-> 500]
    ELSE IF outcome.status = 404
    THEN [success |-> FALSE, error |-> "not found or access denied", statusCode |-> 403]
    ELSE IF outcome.status = 403
    THEN [success |-> FALSE, error |-> "no read access", statusCode |-> 403]
    ELSE IF outcome.status = 401
    THEN [success |-> FALSE, error |-> "Invalid or expired GitHub token", statusCode |-> 401]
    ELSE IF ~(outcome.status >= 200 /\ outcome.status <= 299)
    THEN [success |-> FALSE, error |-> "Failed to verify repository access", statusCode |-> 500]
    ELSE [success |-> TRUE, error |-> "", statusCode |-> 0]

\* NextResponse.json({error}, {status})
ErrorResponse(status, error) == [status |-> status, error |-> error]

InitRoute ==
    /\ OnchainInit
    /\ CodecIdle
    /\ RouteIdle
    /\ FlowIdle
    /\ ProcessIdle

\* POST up to the access check: the body is read and its fields validated
Post(b) ==
    /\ routePc = "idle"
    /\ body' = b
    /\ IF b.query # "string"
       THEN /\ routeResponse' = ErrorResponse(400, "Missing GraphQL query in body.query")
            /\ routePc' = "done"
       ELSE IF b.githubToken = "missing" /\ b.envToken = "missing"
       THEN /\ routeResponse' = ErrorResponse(400, "Missing GitHub token")
            /\ routePc' = "done"
       ELSE IF b.owner # "string" \/ b.name # "string"
       THEN /\ routeResponse' = ErrorResponse(400, "Missing repository information")
            /\ routePc' = "done"
       ELSE /\ routeResponse' = routeResponse
            /\ routePc' = "access"
    /\ UNCHANGED <<onchain, codec, flow, process, githubAnswer, proverCalls>>

\* await verifyRepositoryAccess: GitHub answers, and a failed check ends
\* the request with the status of the result, or 500 when it has none
AccessChecked(outcome) ==
    /\ routePc = "access"
    /\ githubAnswer' = outcome
    /\ IF ~verifyRepositoryAccess(outcome).success
       THEN /\ routeResponse' =
                  ErrorResponse(IF verifyRepositoryAccess(outcome).statusCode # 0
                                THEN verifyRepositoryAccess(outcome).statusCode
                                ELSE 500,
                                verifyRepositoryAccess(outcome).error)
            /\ routePc' = "done"
       ELSE /\ routeResponse' = routeResponse
            /\ routePc' = "prove"
    /\ UNCHANGED <<onchain, codec, flow, process, body, proverCalls>>

\* await fetch(baseUrl/prove): the prover is called and its answer, or
\* the error thrown, becomes the response
Proved(outcome) ==
    /\ routePc = "prove"
    /\ proverCalls' = proverCalls + 1
    /\ routeResponse' =
          IF outcome.kind = "timeout" THEN ErrorResponse(408, "Request timed out")
          ELSE IF outcome.kind = "throw" THEN ErrorResponse(500, "Failed to prove URL")
          ELSE IF ~(outcome.status >= 200 /\ outcome.status <= 299)
          THEN ErrorResponse(500, "HTTP error! status")
          ELSE [status |-> 200, error |-> ""]
    /\ routePc' = "done"
    /\ UNCHANGED <<onchain, codec, flow, process, body, githubAnswer>>

NextRoute ==
    \/ \E b \in Bodies : Post(b)
    \/ \E o \in GitHubOutcomes : AccessChecked(o)
    \/ \E o \in ProverOutcomes : Proved(o)

SpecRoute == InitRoute /\ [][NextRoute]_vars

\* ---------------------------------------------------------------------
\* useProveFlow (app/hooks/useProveFlow.ts): the three handlers, each up to
\* its await and from its await to its end
\* ---------------------------------------------------------------------
MaxInvocations == 3

Urls == {"", "unparsable", "ownerRepo"}
Usernames == {"", "u"}

\* setUrl / setUsername: the user edits an input
SetUrl(u) ==
    /\ u # urlInput
    /\ urlInput' = u
    /\ UNCHANGED <<onchain, codec, route, process, usernameInput, isProving,
                   isVerifying, isCompressing, presentation, pageResult,
                   zkProofResult, errorMessage, running, nInvoked, proveLog, lastCall>>

SetUsername(n) ==
    /\ n # usernameInput
    /\ usernameInput' = n
    /\ UNCHANGED <<onchain, codec, route, process, urlInput, isProving,
                   isVerifying, isCompressing, presentation, pageResult,
                   zkProofResult, errorMessage, running, nInvoked, proveLog, lastCall>>

Call(handler, kind, id, outcome) ==
    [handler |-> handler, kind |-> kind, id |-> id, outcome |-> outcome]

\* handleProve up to the await of proveContributions, or to its end when
\* the url is blank or cannot be parsed
HandleProve ==
    /\ nInvoked < MaxInvocations
    /\ nInvoked' = nInvoked + 1
    /\ IF urlInput = ""
       THEN /\ errorMessage' = "Please enter a URL"
            /\ lastCall' = Call("prove", "refused", nInvoked + 1, "return")
            /\ UNCHANGED <<isProving, pageResult, zkProofResult, running, proveLog>>
       ELSE IF urlInput = "unparsable"
       THEN /\ isProving' = FALSE
            /\ errorMessage' = "Could not parse owner/repo from the URL"
            /\ pageResult' = NoResult
            /\ zkProofResult' = NoZkProof
            /\ proveLog' = Append(proveLog, [id |-> nInvoked + 1, outcome |-> "failed"])
            /\ lastCall' = Call("prove", "settled", nInvoked + 1, "throw")
            /\ UNCHANGED running
       ELSE /\ isProving' = TRUE
            /\ errorMessage' = "null"
            /\ pageResult' = NoResult
            /\ zkProofResult' = NoZkProof
            /\ running' = running \cup {[id |-> nInvoked + 1, handler |-> "prove",
                                         presentation |-> NoPresentation]}
            /\ lastCall' = Call("prove", "invoked", nInvoked + 1, "await")
            /\ UNCHANGED proveLog
    /\ UNCHANGED <<onchain, codec, route, process, urlInput, usernameInput,
                   isVerifying, isCompressing, presentation>>

\* handleProve after its await: the state it leaves when the request
\* returned data ("ok") or threw
handleProveSettled(c, outcome, pres, res, err) ==
    IF outcome = "ok"
    THEN [busy |-> FALSE, presentation |-> [from |-> c.id],
          result |-> [type |-> "prove", from |-> c.id], errorMessage |-> err]
    ELSE [busy |-> FALSE, presentation |-> pres, result |-> res,
          errorMessage |-> "Failed to prove URL"]

ProveSettled(c, outcome) ==
    /\ c \in running
    /\ c.handler = "prove"
    /\ running' = running \ {c}
    /\ isProving' = handleProveSettled(c, outcome, presentation, pageResult, errorMessage).busy
    /\ presentation' =
          handleProveSettled(c, outcome, presentation, pageResult, errorMessage).presentation
    /\ pageResult' = handleProveSettled(c, outcome, presentation, pageResult, errorMessage).result
    /\ errorMessage' =
          handleProveSettled(c, outcome, presentation, pageResult, errorMessage).errorMessage
    /\ proveLog' = Append(proveLog, [id |-> c.id,
                                     outcome |-> IF outcome = "ok" THEN "ok" ELSE "failed"])
    /\ lastCall' = Call("prove", "settled", c.id, outcome)
    /\ UNCHANGED <<onchain, codec, route, process, urlInput, usernameInput,
                   isVerifying, isCompressing, zkProofResult, nInvoked>>

\* handleVerify up to the await of verifyPresentation, or to its early
\* return
HandleVerify ==
    /\ nInvoked < MaxInvocations
    /\ nInvoked' = nInvoked + 1
    /\ IF presentation = NoPresentation
       THEN /\ errorMessage' = "Please prove a URL first"
            /\ lastCall' = Call("verify", "refused", nInvoked + 1, "return")
            /\ UNCHANGED <<isVerifying, running>>
       ELSE IF usernameInput = ""
       THEN /\ errorMessage' = "Please enter your GitHub username"
            /\ lastCall' = Call("verify", "refused", nInvoked + 1, "return")
            /\ UNCHANGED <<isVerifying, running>>
       ELSE /\ isVerifying' = TRUE
            /\ errorMessage' = "null"
            /\ running' = running \cup {[id |-> nInvoked + 1, handler |-> "verify",
                                         presentation |-> presentation]}
            /\ lastCall' = Call("verify", "invoked", nInvoked + 1, "await")
    /\ UNCHANGED <<onchain, codec, route, process, urlInput, usernameInput, isProving,
                   isCompressing, presentation, pageResult, zkProofResult, proveLog>>

\* handleVerify after its await with the return for missing contribution
\* data leaving the function before the reset
handleVerifySettled_ReturnSkipsReset(c, outcome, res, err) ==
    IF outcome = "ok"
    THEN [busy |-> FALSE, result |-> [type |-> "verify", from |-> c.presentation.from],
          errorMessage |-> err]
    ELSE IF outcome = "noData"
    THEN [busy |-> TRUE, result |-> res, errorMessage |-> "No merged PR data found"]
    ELSE [busy |-> FALSE, result |-> res, errorMessage |-> "Failed to verify presentation"]

\* handleVerify after its await: the request returned data with
\* contribution data ("ok"), without ("noData"), or threw
handleVerifySettled(c, outcome, res, err) ==
    IF outcome = "ok"
    THEN [busy |-> FALSE, result |-> [type |-> "verify", from |-> c.presentation.from],
          errorMessage |-> err]
    ELSE IF outcome = "noData"
    THEN [busy |-> FALSE, result |-> res, errorMessage |-> "No merged PR data found"]
    ELSE [busy |-> FALSE, result |-> res, errorMessage |-> "Failed to verify presentation"]

VerifySettled(c, outcome) ==
    /\ c \in running
    /\ c.handler = "verify"
    /\ running' = running \ {c}
    /\ isVerifying' = handleVerifySettled(c, outcome, pageResult, errorMessage).busy
    /\ pageResult' = handleVerifySettled(c, outcome, pageResult, errorMessage).result
    /\ errorMessage' = handleVerifySettled(c, outcome, pageResult, errorMessage).errorMessage
    /\ lastCall' = Call("verify", "settled", c.id, outcome)
    /\ UNCHANGED <<onchain, codec, route, process, urlInput, usernameInput, isProving,
                   isCompressing, presentation, zkProofResult, nInvoked, proveLog>>

\* handleCompress up to the await of compressPresentation, or to its early
\* return
HandleCompress ==
    /\ nInvoked < MaxInvocations
    /\ nInvoked' = nInvoked + 1
    /\ IF presentation = NoPresentation
       THEN /\ errorMessage' = "Please prove a URL first"
            /\ lastCall' = Call("compress", "refused", nInvoked + 1, "return")
            /\ UNCHANGED <<isCompressing, running>>
       ELSE IF usernameInput = ""
       THEN /\ errorMessage' = "Please enter your GitHub username"
            /\ lastCall' = Call("compress", "refused", nInvoked + 1, "return")
            /\ UNCHANGED <<isCompressing, running>>
       ELSE /\ isCompressing' = TRUE
            /\ errorMessage' = "null"
            /\ running' = running \cup {[id |-> nInvoked + 1, handler |-> "compress",
                                         presentation |-> presentation]}
            /\ lastCall' = Call("compress", "invoked", nInvoked + 1, "await")
    /\ UNCHANGED <<onchain, codec, route, process, urlInput, usernameInput, isProving,
                   isVerifying, presentation, pageResult, zkProofResult, proveLog>>

\* handleCompress after its await: a proof with or without user data, no
\* response, a response without zkProof or publicOutputs, or a throw
handleCompressSettled(c, outcome, zk, err) ==
    IF outcome = "ok"
    THEN [busy |-> FALSE, zkProofResult |-> [from |-> c.presentation.from, userData |-> TRUE],
          errorMessage |-> err]
    ELSE IF outcome = "okNoUserData"
    THEN [busy |-> FALSE, zkProofResult |-> [from |-> c.presentation.from, userData |-> FALSE],
          errorMessage |-> err]
    ELSE IF outcome = "noResponse"
    THEN [busy |-> FALSE, zkProofResult |-> zk, errorMessage |-> "Invalid ZK proof response"]
    ELSE IF outcome = "badStructure"
    THEN [busy |-> FALSE, zkProofResult |-> zk,
          errorMessage |-> "Invalid ZK proof response structure"]
    ELSE [busy |-> FALSE, zkProofResult |-> zk, errorMessage |-> "Failed to generate ZK proof"]

CompressSettled(c, outcome) ==
    /\ c \in running
    /\ c.handler = "compress"
    /\ running' = running \ {c}
    /\ isCompressing' = handleCompressSettled(c, outcome, zkProofResult, errorMessage).busy
    /\ zkProofResult' =
          handleCompressSettled(c, outcome, zkProofResult, errorMessage).zkProofResult
    /\ errorMessage' =
          handleCompressSettled(c, outcome, zkProofResult, errorMessage).errorMessage
    /\ lastCall' = Call("compress", "settled", c.id, outcome)
    /\ UNCHANGED <<onchain, codec, route, process, urlInput, usernameInput, isProving,
                   isVerifying, presentation, pageResult, nInvoked, proveLog>>

NextFlow ==
    \/ \E u \in Urls : SetUrl(u)
    \/ \E n \in Usernames : SetUsername(n)
    \/ HandleProve
    \/ \E c \in running, o \in {"ok", "throw"} : ProveSettled(c, o)
    \/ HandleVerify
    \/ \E c \in running, o \in {"ok", "noData", "throw"} : VerifySettled(c, o)
    \/ HandleCompress
    \/ \E c \in running,
          o \in {"ok", "okNoUserData", "noResponse", "badStructure", "throw"} :
             CompressSettled(c, o)

SpecFlow == Init /\ [][NextFlow]_vars

\* ---------------------------------------------------------------------
\* stopProcess (tests/helpers/process) on child processes that exit when
\* they choose or when a signal makes them
\* ---------------------------------------------------------------------
MaxStops == 2

\* the child exits and 'exit' is emitted: a registered listener clears
\* the timer and resolves the stopProcess call that waits
Exit(p) ==
    /\ alive' = [alive EXCEPT ![p] = FALSE]
    /\ signal' = [signal EXCEPT ![p] = "none"]
    /\ exitListener' = [exitListener EXCEPT ![p] = FALSE]
    /\ killTimer' = [killTimer EXCEPT ![p] =
                        IF exitListener[p] /\ @ = "armed" THEN "cleared" ELSE @]
    /\ stop' = [stop EXCEPT ![p] = IF exitListener[p] THEN "resolved" ELSE @]
    /\ UNCHANGED <<killed, nStops>>

\* the child ends without having been signalled
ExitsOnItsOwn(p) ==
    /\ alive[p]
    /\ signal[p] = "none"
    /\ Exit(p)
    /\ UNCHANGED <<onchain, codec, route, flow>>

\* stopProcess(proc): nothing for a missing or already killed process;
\* otherwise the timer, the exit listener and SIGTERM, which reaches only a
\* child that has not exited
stopProcess(p) ==
    IF p = NoProc \/ killed[p]
    THEN /\ stop' = [stop EXCEPT ![p] = "resolved"]
         /\ UNCHANGED <<alive, killed, signal, exitListener, killTimer>>
    ELSE /\ killTimer' = [killTimer EXCEPT ![p] = "armed"]
         /\ exitListener' = [exitListener EXCEPT ![p] = TRUE]
         /\ killed' = [killed EXCEPT ![p] = alive[p]]
         /\ signal' = [signal EXCEPT ![p] = IF alive[p] THEN "SIGTERM" ELSE @]
         /\ stop' = [stop EXCEPT ![p] = "waiting"]
         /\ UNCHANGED alive

\* a test hook calls stopProcess; a second call comes only after the
\* first has resolved
StopProcess(p) ==
    /\ stop[p] # "waiting"
    /\ nStops[p] < MaxStops
    /\ nStops' = [nStops EXCEPT ![p] = @ + 1]
    /\ stopProcess(p)
    /\ UNCHANGED <<onchain, codec, route, flow>>

\* the child exits on SIGTERM
TermExit(p) ==
    /\ alive[p]
    /\ signal[p] = "SIGTERM"
    /\ Exit(p)
    /\ UNCHANGED <<onchain, codec, route, flow>>

\* the child handles SIGTERM and goes on
IgnoresSigterm(p) ==
    /\ alive[p]
    /\ signal[p] = "SIGTERM"
    /\ signal' = [signal EXCEPT ![p] = "none"]
    /\ UNCHANGED <<onchain, codec, route, flow, alive, killed, exitListener,
                   killTimer, stop, nStops>>

\* after 5 s the timer calls proc.kill('SIGKILL')
KillTimerFires(p) ==
    /\ killTimer[p] = "armed"
    /\ killTimer' = [killTimer EXCEPT ![p] = "fired"]
    /\ killed' = [killed EXCEPT ![p] = @ \/ alive[p]]
    /\ signal' = [signal EXCEPT ![p] = IF alive[p] THEN "SIGKILL" ELSE @]
    /\ UNCHANGED <<onchain, codec, route, flow, alive, exitListener, stop, nStops>>

\* SIGKILL ends the child
KilledBySigkill(p) ==
    /\ alive[p]
    /\ signal[p] = "SIGKILL"
    /\ Exit(p)
    /\ UNCHANGED <<onchain, codec, route, flow>>

NextProcess ==
    \/ \E p \in Procs : ExitsOnItsOwn(p)
    \/ \E p \in Handles : StopProcess(p)
    \/ \E p \in Procs : TermExit(p)
    \/ \E p \in Procs : IgnoresSigterm(p)
    \/ \E p \in Procs : KillTimerFires(p)
    \/ \E p \in Procs : KilledBySigkill(p)

\* the timer fires when armed, a signalled child acts on the signal, and
\* SIGKILL cannot be ignored; nothing makes a child exit on its own or a
\* hook call stopProcess
FairProcess ==
    \A p \in Procs :
        /\ WF_vars(KillTimerFires(p))
        /\ WF_vars(TermExit(p) \/ IgnoresSigterm(p))
        /\ WF_vars(KilledBySigkill(p))

SpecProcess == Init /\ [][NextProcess]_vars /\ FairProcess

\* ---------------------------------------------------------------------
\* Properties
\* ---------------------------------------------------------------------
\* fields of the journal of a transaction, and the four checks stated on them
FieldsOf(tx) == JournalFields[tx.journalData]

Extracted(tx) == FieldsOf(tx).error = "none"

FpOk(tx) == FieldsOf(tx).notaryKeyFingerprint = EXPECTED_NOTARY_KEY_FINGERPRINT
QhOk(tx) == FieldsOf(tx).queriesHash = EXPECTED_QUERIES_HASH
UrlOk(tx) == FieldsOf(tx).url = expectedUrlPattern
CountOk(tx) == FieldsOf(tx).contributions >= 1 /\ FieldsOf(tx).contributions <= 1000000

AllChecksPass(tx) ==
    Extracted(tx) /\ FpOk(tx) /\ QhOk(tx) /\ UrlOk(tx) /\ CountOk(tx)

FieldErrors ==
    {"InvalidNotaryKeyFingerprint", "InvalidQueriesHash", "InvalidUrl",
     "InvalidContributions"}

\* the step is a submitContribution transaction
IsCall == nCalls' = nCalls + 1

Keys == DOMAIN contributionsByRepoAndUser

\* C1: every ledger entry was stored by a transaction whose journal passed
\* the four field checks and whose seal the verifier accepted, for that
\* key and with that value; no entry comes from a rejected proof
C1_OnlyVerifiedWrites ==
    \A k \in Keys :
        /\ k \in DOMAIN writtenBy
        /\ AllChecksPass(writtenBy[k])
        /\ writtenBy[k].ans.kind = "ok"
        /\ writtenBy[k].result.verifyCalls # <<>>
        /\ FieldsOf(writtenBy[k]).repoNameWithOwner = k[1]
        /\ FieldsOf(writtenBy[k]).username = k[2]
        /\ FieldsOf(writtenBy[k]).contributions = contributionsByRepoAndUser[k]

\* an entry exists and the latest transaction, for the same key, had valid
\* fields but a proof the verifier rejected
C1_Witness ==
    /\ nCalls = 2
    /\ Stored(contributionsByRepoAndUser, REPO_1, USER_1) = 1000000
    /\ lastTx.result.error = "ZKProofVerificationFailed"
    /\ AllChecksPass(lastTx)
    /\ FieldsOf(lastTx).repoNameWithOwner = REPO_1
    /\ FieldsOf(lastTx).username = USER_1
    /\ FieldsOf(lastTx).contributions = 1

\* C2: a transaction that fails leaves every stored value as it was and
\* emits nothing; one that succeeds stores its value and emits its event
C2_AllOrNothing ==
    [][IsCall =>
        IF lastTx'.result.error # "none"
        THEN /\ contributionsByRepoAndUser' = contributionsByRepoAndUser
             /\ events' = events
        ELSE /\ Stored(contributionsByRepoAndUser',
                       FieldsOf(lastTx').repoNameWithOwner,
                       FieldsOf(lastTx').username)
                  = FieldsOf(lastTx').contributions
             /\ Len(events') = Len(events) + 1]_vars

\* a failure at each step after a success: the third step failing here is
\* a field check, with an entry and an event already there
C2_Witness ==
    /\ nCalls = 2
    /\ Len(events) = 1
    /\ Keys # {}
    /\ lastTx.result.error = "InvalidQueriesHash"

\* C3: with all four checks passing, a verifier that reverts with a reason
\* or fails in another way gives ZKProofVerificationFailed and no change
\* of the ledger
C3_VerifierFailure ==
    [][(IsCall /\ AllChecksPass(lastTx') /\ lastTx'.ans.kind # "ok") =>
        /\ lastTx'.result.error = "ZKProofVerificationFailed"
        /\ contributionsByRepoAndUser' = contributionsByRepoAndUser]_vars

\* the verifier failed without a reason string on a valid journal
C3_Witness ==
    /\ nCalls > 0
    /\ AllChecksPass(lastTx)
    /\ lastTx.ans.kind = "lowLevel"
    /\ lastTx.result.error = "ZKProofVerificationFailed"

\* C4: on an extracted journal, field validation lets the transaction
\* through exactly when the four checks pass, and a single violated check
\* gives that check's error
C4_ValidationCorrect ==
    (nCalls > 0 /\ Extracted(lastTx)) =>
        /\ (lastTx.result.error \notin FieldErrors)
              <=> (FpOk(lastTx) /\ QhOk(lastTx) /\ UrlOk(lastTx) /\ CountOk(lastTx))
        /\ (~FpOk(lastTx) /\ QhOk(lastTx) /\ UrlOk(lastTx) /\ CountOk(lastTx))
              => lastTx.result.error = "InvalidNotaryKeyFingerprint"
        /\ (FpOk(lastTx) /\ ~QhOk(lastTx) /\ UrlOk(lastTx) /\ CountOk(lastTx))
              => lastTx.result.error = "InvalidQueriesHash"
        /\ (FpOk(lastTx) /\ QhOk(lastTx) /\ ~UrlOk(lastTx) /\ CountOk(lastTx))
              => lastTx.result.error = "InvalidUrl"
        /\ (FpOk(lastTx) /\ QhOk(lastTx) /\ UrlOk(lastTx) /\ ~CountOk(lastTx))
              => lastTx.result.error = "InvalidContributions"

\* only the url check is violated
C4_Witness ==
    /\ nCalls > 0
    /\ Extracted(lastTx)
    /\ FpOk(lastTx) /\ QhOk(lastTx) /\ ~UrlOk(lastTx) /\ CountOk(lastTx)
    /\ lastTx.result.error = "InvalidUrl"

\* C5: the error of a journal that violates several checks is that of the
\* first violated one in the order fingerprint, queries hash, url,
\* contributions
C5_FirstViolatedCheck ==
    (nCalls > 0 /\ Extracted(lastTx)) =>
        LET ok == <<FpOk(lastTx), QhOk(lastTx), UrlOk(lastTx), CountOk(lastTx)>>
            name == <<"InvalidNotaryKeyFingerprint", "InvalidQueriesHash",
                      "InvalidUrl", "InvalidContributions">>
        IN \A i \in 1..4 :
              (~ok[i] /\ \A j \in 1..(i - 1) : ok[j])
                  => lastTx.result.error = name[i]

\* the queries hash, the url and the contributions are all wrong
C5_Witness ==
    /\ nCalls > 0
    /\ Extracted(lastTx)
    /\ FpOk(lastTx) /\ ~QhOk(lastTx) /\ ~UrlOk(lastTx) /\ ~CountOk(lastTx)
    /\ lastTx.result.error = "InvalidQueriesHash"

\* C6: an accepted submission stores its own value under its key whatever
\* value was there, a larger one included: the ledger keeps the latest
\* value, not the maximum
C6_LastWriteWins ==
    [][(IsCall /\ lastTx'.result.error = "none") =>
        LET repo == FieldsOf(lastTx').repoNameWithOwner
            user == FieldsOf(lastTx').username
            X == Stored(contributionsByRepoAndUser, repo, user)
            Y == FieldsOf(lastTx').contributions
        IN /\ Stored(contributionsByRepoAndUser', repo, user) = Y
           /\ (Y < X => Stored(contributionsByRepoAndUser', repo, user) < X)]_vars

\* two accepted submissions for one key, 1000000 and then 1
C6_Witness ==
    /\ Len(events) = 2
    /\ Cardinality(Keys) = 1
    /\ events[1].contributions = 1000000
    /\ events[2].contributions = 1
    /\ \A k \in Keys : contributionsByRepoAndUser[k] = 1

\* C7: an accepted submission has 1 <= contributions <= 1000000; with the
\* other three checks passing, 0 and 1000001 give InvalidContributions and
\* 1 and 1000000 do not
C7_ContributionBounds ==
    (nCalls > 0 /\ Extracted(lastTx)) =>
        LET c == FieldsOf(lastTx).contributions
        IN /\ lastTx.result.error = "none" => (1 <= c /\ c <= 1000000)
           /\ (FpOk(lastTx) /\ QhOk(lastTx) /\ UrlOk(lastTx)) =>
                 /\ c \in {0, 1000001} => lastTx.result.error = "InvalidContributions"
                 /\ c \in {1, 1000000} => lastTx.result.error # "InvalidContributions"
                 /\ (lastTx.result.error = "InvalidContributions")
                       <=> (c < 1 \/ c > 1000000)

\* 1000000 was accepted and 1000001 has just been rejected
C7_Witness ==
    /\ nCalls = 2
    /\ Stored(contributionsByRepoAndUser, REPO_1, USER_1) = 1000000
    /\ FieldsOf(lastTx).contributions = 1000001
    /\ lastTx.result.error = "InvalidContributions"

\* C8: the number of ContributionVerified events equals the number of
\* accepted submissions
C8_OneEventPerAccepted ==
    /\ Len(events) = nAccepted
    /\ nCalls > 0 => Len(lastTx.result.logs) = (IF lastTx.result.error = "none" THEN 1 ELSE 0)

\* one submission accepted and one rejected
C8_Witness ==
    /\ nCalls = 2
    /\ nAccepted = 1
    /\ Len(events) = 1
    /\ lastTx.result.error = "InvalidContributions"

C10_EightFieldLayoutAccepted ==
    (nCalls > 0 /\ lastTx.journalData = JOURNAL_8 /\ lastTx.ans.kind = "ok") =>
        /\ lastTx.result.error = "none"
        /\ Stored(contributionsByRepoAndUser, REPO_1, USER_1) = 1

\* the mined transactions that were accepted, as indices of applied
AcceptedAt == {i \in DOMAIN applied : applied[i].tx.result.error = "none"}

KeyAt(i) == <<FieldsOf(applied[i].tx).repoNameWithOwner, FieldsOf(applied[i].tx).username>>

\* the ledger that applying the mined transactions one at a time, in mined
\* order, gives: per key, the value of the last accepted one
LedgerInOrder ==
    [k \in {KeyAt(i) : i \in AcceptedAt} |->
        LET last == CHOOSE i \in AcceptedAt :
                        /\ KeyAt(i) = k
                        /\ \A j \in AcceptedAt : KeyAt(j) = k => j <= i
        IN FieldsOf(applied[last].tx).contributions]

\* C11: with several callers sending at once, the ledger is at every
\* moment the result of applying the mined transactions one at a time in
\* the order the host mined them, and a transaction that is only pending
\* has no effect; for one key the value is that of the last one mined
C11_Serialized ==
    /\ Len(applied) = nCalls
    /\ contributionsByRepoAndUser = LedgerInOrder

\* two callers sent for one key; the host mined the later sent one first,
\* both were accepted and the ledger holds the value of the earlier sent one
C11_Witness ==
    /\ Len(applied) = 2
    /\ AcceptedAt = {1, 2}
    /\ applied[1].caller # applied[2].caller
    /\ KeyAt(1) = KeyAt(2)
    /\ applied[1].seq > applied[2].seq
    /\ FieldsOf(applied[1].tx).contributions = 1
    /\ FieldsOf(applied[2].tx).contributions = 1000000
    /\ contributionsByRepoAndUser[KeyAt(1)] = 1000000

\* a transaction the contract is to accept: its journal passes the four
\* checks and the verifier accepted its seal
ToBeAccepted(tx) == AllChecksPass(tx) /\ tx.ans.kind = "ok"

AcceptedFor(username) ==
    {i \in DOMAIN applied :
        ToBeAccepted(applied[i].tx) /\ FieldsOf(applied[i].tx).username = username}

NthAcceptedFor(username, k) ==
    CHOOSE i \in AcceptedFor(username) :
        Cardinality({j \in AcceptedFor(username) : j <= i}) = k

\* the record of the i-th mined submission, mined in block i
RecordOf(i) ==
    [repository |-> FieldsOf(applied[i].tx).repoNameWithOwner,
     username |-> FieldsOf(applied[i].tx).username,
     contributions |-> FieldsOf(applied[i].tx).contributions,
     timestamp |-> FieldsOf(applied[i].tx).timestamp,
     blockHeight |-> i,
     url |-> FieldsOf(applied[i].tx).url]

C15_OnlyItsKey ==
    [][(IsCall /\ lastTx'.result.error = "none") =>
        \A k \in Repos \X Users :
            k # <<FieldsOf(lastTx').repoNameWithOwner, FieldsOf(lastTx').username>>
                => Stored(contributionsByRepoAndUser', k[1], k[2])
                     = Stored(contributionsByRepoAndUser, k[1], k[2])]_vars

\* 1000000 stored for one user, then 1 accepted for the same user in
\* another repository: both entries are there with their own values
C15_Witness ==
    /\ nCalls = 2
    /\ nAccepted = 2
    /\ Stored(contributionsByRepoAndUser, REPO_1, USER_1) = 1000000
    /\ Stored(contributionsByRepoAndUser, <<111>>, USER_1) = 1
    /\ FieldsOf(lastTx).repoNameWithOwner = <<111>>
    /\ FieldsOf(lastTx).username = USER_1

\* C16: an entry that exists stays: no transaction, accepted or rejected,
\* removes a key or brings a stored count that is not zero back to zero
C16_NeverReset ==
    [][\A k \in Repos \X Users :
          /\ k \in DOMAIN contributionsByRepoAndUser
                => k \in DOMAIN contributionsByRepoAndUser'
          /\ Stored(contributionsByRepoAndUser, k[1], k[2]) > 0
                => Stored(contributionsByRepoAndUser', k[1], k[2]) > 0]_vars

\* an entry holds 1 and a journal with 0 contributions for the same key,
\* valid otherwise, has just been rejected
C16_Witness ==
    /\ nCalls = 2
    /\ Stored(contributionsByRepoAndUser, REPO_1, USER_1) = 1
    /\ FieldsOf(lastTx).repoNameWithOwner = REPO_1
    /\ FieldsOf(lastTx).username = USER_1
    /\ FieldsOf(lastTx).contributions = 0
    /\ Extracted(lastTx)
    /\ lastTx.ans.kind = "ok"
    /\ lastTx.result.error = "InvalidContributions"

C18_SubstringUrlAccepted ==
    (/\ nCalls > 0
     /\ Extracted(lastTx)
     /\ contains(FieldsOf(lastTx).url, expectedUrlPattern)
     /\ FieldsOf(lastTx).url # expectedUrlPattern
     /\ FpOk(lastTx) /\ QhOk(lastTx) /\ CountOk(lastTx)
     /\ lastTx.ans.kind = "ok") =>
        /\ lastTx.result.error = "none"
        /\ Stored(contributionsByRepoAndUser, FieldsOf(lastTx).repoNameWithOwner,
                  FieldsOf(lastTx).username) = FieldsOf(lastTx).contributions

\* C19: when the journal and seal of the accepted transaction before are
\* mined again and the verifier accepts again, the transaction is accepted
\* again and every stored count is what it was after the first one
C19_ResubmissionKeepsCounts ==
    [][(/\ IsCall
        /\ lastTx.result.error = "none"
        /\ lastTx'.journalData = lastTx.journalData
        /\ lastTx'.seal = lastTx.seal
        /\ lastTx'.ans.kind = "ok") =>
            /\ lastTx'.result.error = "none"
            /\ contributionsByRepoAndUser' = contributionsByRepoAndUser]_vars

\* the same journal and seal mined twice, accepted twice, one entry with
\* the value of the journal
C19_Witness ==
    /\ Len(applied) = 2
    /\ applied[1].tx.journalData = applied[2].tx.journalData
    /\ applied[1].tx.seal = applied[2].tx.seal
    /\ applied[1].tx.result.error = "none"
    /\ applied[2].tx.result.error = "none"
    /\ Cardinality(Keys) = 1
    /\ Stored(contributionsByRepoAndUser, REPO_1, USER_1) = 1000000
    /\ Len(events) = 2

\* the rejection reasons that have a name
NamedReasons ==
    {"CodecError", "InvalidNotaryKeyFingerprint", "InvalidQueriesHash",
     "InvalidUrl", "InvalidContributions", "ZKProofVerificationFailed"}

\* C20: a rejected submission is rejected with one of the named reasons,
\* never with a revert that carries no data or only a message string
C20_NamedReasonsOnly ==
    (nCalls > 0 /\ lastTx.result.error # "none") =>
        lastTx.result.error \in NamedReasons

\* C21: the record the contract extracts from the journal the client built
\* from a record is that record, field by field
C21_RoundTrip ==
    decodedRecord # NotYet =>
        /\ decodedRecord.error = "none"
        /\ decodedRecord.notaryKeyFingerprint = record.notaryKeyFingerprint
        /\ decodedRecord.url = record.url
        /\ decodedRecord.timestamp = record.timestamp
        /\ decodedRecord.queriesHash = record.queriesHash
        /\ decodedRecord.repoNameWithOwner = record.repoNameWithOwner
        /\ decodedRecord.username = record.username
        /\ decodedRecord.contributions = record.contributions

\* a record with a url of 33 bytes, an empty username and 999999
\* contributions has been encoded and decoded
C21_Witness ==
    /\ decodedRecord # NotYet
    /\ record.url = STR_33
    /\ record.username = <<>>
    /\ record.contributions = 999999
    /\ decodedRecord.contributions = 999999
    /\ decodedRecord.url = STR_33
    /\ journalBytes.n = 576

\* C22: an accepted submission appends one ContributionVerified event with
\* the username, contributions, url and timestamp of its journal and the
\* number of the block the transaction is mined in
C22_EventContents ==
    [][(IsCall /\ lastTx'.result.error = "none") =>
        events' = Append(events,
                         [username |-> FieldsOf(lastTx').username,
                          contributions |-> FieldsOf(lastTx').contributions,
                          repoUrl |-> FieldsOf(lastTx').url,
                          timestamp |-> FieldsOf(lastTx').timestamp,
                          blockNumber |-> blockNumber'])]_vars

\* the first mined submission was rejected and the second accepted: its
\* event carries block number 2 and the values of its journal
C22_Witness ==
    /\ Len(applied) = 2
    /\ applied[1].tx.result.error # "none"
    /\ applied[2].tx.result.error = "none"
    /\ Len(events) = 1
    /\ events[1].blockNumber = 2
    /\ events[1].username = USER_1
    /\ events[1].contributions = 1000000
    /\ events[1].repoUrl = URL_GOOD
    /\ events[1].timestamp = TS

\* C23: when GitHub answers the access check with 401, 403 or 404 the
\* route has answered with 401 or 403 and an error text, and the prover has
\* not been called and is not called later for that request
C23_AccessCheckedFirst ==
    /\ proverCalls > 0 =>
          (githubAnswer # NotYet /\ githubAnswer.kind = "response"
             /\ githubAnswer.status = 200)
    /\ (githubAnswer # NotYet /\ githubAnswer.kind = "response"
           /\ githubAnswer.status \in {401, 403, 404}) =>
          /\ routePc = "done"
          /\ routeResponse.status \in {401, 403}
          /\ routeResponse.error # ""
          /\ proverCalls = 0

\* GitHub answered 404 for a request with a token, a query and a
\* repository: the route answered 403
C23_Witness ==
    /\ routePc = "done"
    /\ body # NotYet
    /\ body.githubToken = "string"
    /\ githubAnswer # NotYet
    /\ githubAnswer.status = 404
    /\ routeResponse.status = 403
    /\ proverCalls = 0

\* C24: the verifier is called only for a journal that passed all four
\* field checks; a journal with a field mismatch and a proof the verifier
\* would reject fails with the field error and without a verifier call
C24_FieldsBeforeVerifier ==
    nCalls > 0 =>
        /\ lastTx.result.verifyCalls # <<>> => AllChecksPass(lastTx)
        /\ (Extracted(lastTx) /\ ~AllChecksPass(lastTx)) =>
              /\ lastTx.result.error \in FieldErrors
              /\ lastTx.result.verifyCalls = <<>>

\* a wrong url together with a proof the verifier rejects
C24_Witness ==
    /\ nCalls > 0
    /\ Extracted(lastTx)
    /\ FpOk(lastTx) /\ QhOk(lastTx) /\ ~UrlOk(lastTx)
    /\ lastTx.ans.kind # "ok"
    /\ lastTx.result.error = "InvalidUrl"
    /\ lastTx.result.verifyCalls = <<>>

\* the calls made to the verifier by a transaction
VerifyCallsOf(tx) == Range(tx.result.verifyCalls)

\* C25: every verifier call carries IMAGE_ID and the SHA-256 digest of the
\* journal bytes as submitted, also when other bytes decode to the same
\* fields; transactions with different journal bytes never share a digest
C25_DigestOfSubmittedBytes ==
    nCalls > 0 =>
        /\ \A c \in VerifyCallsOf(lastTx) :
              /\ c.imageId = IMAGE_ID
              /\ c.journalDigest = Sha256(lastTx.journalData)
              /\ c.seal = lastTx.seal
        /\ \A k \in DOMAIN writtenBy :
              writtenBy[k].journalData # lastTx.journalData =>
                 \A c \in VerifyCallsOf(lastTx), d \in VerifyCallsOf(writtenBy[k]) :
                     c.journalDigest # d.journalDigest

\* two accepted journals with the same fields and different bytes (the
\* later one carries a fourth extracted value), verified on different
\* digests
C25_Witness ==
    /\ nCalls = 2
    /\ lastTx.journalData = VALID_4
    /\ lastTx.result.error = "none"
    /\ <<REPO_1, USER_1>> \in DOMAIN writtenBy
    /\ writtenBy[<<REPO_1, USER_1>>] = lastTx
    /\ FieldsOf(lastTx) = JournalFields[VALID_1]
    /\ \E c \in VerifyCallsOf(lastTx) :
          /\ c.journalDigest = Sha256(VALID_4)
          /\ c.journalDigest # Sha256(VALID_1)

\* the five-field decode of every input journal
DecodedJournals == [j \in Journals |-> AbiDecode5(j)] @@ <<>>

DecodedOf(tx) == DecodedJournals[tx.journalData]

\* all bytes of a string are decimal digits
AllDigits(b) == \A i \in DOMAIN b : b[i] >= 48 /\ b[i] <= 57

\* C26: a journal that decodes with fewer than 3 extracted values, or with
\* a contribution string that is not all digits, fails with the message of
\* that check whatever its fingerprint, queries hash and url are
C26_ExtractionBeforeFieldChecks ==
    (nCalls > 0 /\ DecodedOf(lastTx).ok) =>
        /\ Len(DecodedOf(lastTx).v.extractedValues) < 3 =>
              /\ lastTx.result.error = "Error"
              /\ lastTx.result.msg = <<"Invalid extracted values length">>
        /\ (/\ Len(DecodedOf(lastTx).v.extractedValues) >= 3
            /\ ~AllDigits(DecodedOf(lastTx).v.extractedValues[3])) =>
              /\ lastTx.result.error = "Error"
              /\ lastTx.result.msg = <<"Invalid number string">>

\* a contribution string that is not a number in a journal whose
\* fingerprint, queries hash and url are all wrong
C26_Witness ==
    /\ nCalls > 0
    /\ DecodedOf(lastTx).ok
    /\ Len(DecodedOf(lastTx).v.extractedValues) = 3
    /\ ~AllDigits(DecodedOf(lastTx).v.extractedValues[3])
    /\ DecodedOf(lastTx).v.notaryKeyFingerprint # EXPECTED_NOTARY_KEY_FINGERPRINT
    /\ DecodedOf(lastTx).v.queriesHash # EXPECTED_QUERIES_HASH
    /\ DecodedOf(lastTx).v.url # expectedUrlPattern
    /\ lastTx.result.msg = <<"Invalid number string">>

\* two transactions carry the same submission and got the same answer of
\* the verifier
SameSubmission(t1, t2) ==
    /\ t1.journalData = t2.journalData
    /\ t1.seal = t2.seal
    /\ t1.ans = t2.ans

Running(handler) == {c \in running : c.handler = handler}

\* C28: whenever no call of a handler is under way its busy flag is false,
\* after a success, after a thrown error and after an early return
C28_BusyOnlyWhileRunning ==
    /\ Running("prove") = {} => ~isProving
    /\ Running("verify") = {} => ~isVerifying
    /\ Running("compress") = {} => ~isCompressing

\* handleVerify has returned early from its try block, for data without
\* contributions, after a proof that succeeded; nothing is under way
C28_Witness ==
    /\ lastCall.handler = "verify"
    /\ lastCall.kind = "settled"
    /\ lastCall.outcome = "noData"
    /\ errorMessage = "No merged PR data found"
    /\ running = {}
    /\ presentation # NoPresentation
    /\ ~isVerifying

\* the handleProve call made last among those that have ended
LatestProve ==
    CHOOSE e \in Range(proveLog) : \A o \in Range(proveLog) : o.id <= e.id

\* C29: a handleVerify or handleCompress call made when the most recent
\* handleProve call, which was also the last to end, has failed and none
\* is under way, is refused and does not go on with a stored presentation
C29_FailedProveClearsPresentation ==
    (/\ lastCall.handler \in {"verify", "compress"}
     /\ lastCall.kind \in {"invoked", "refused"}
     /\ Running("prove") = {}
     /\ proveLog # <<>>
     /\ LatestProve.outcome = "failed"
     /\ proveLog[Len(proveLog)] = LatestProve) =>
        lastCall.kind = "refused"

\* C30: every stopProcess call that waits is resolved in the end, also on
\* a child that had exited before the call
C30_StopResolves ==
    \A p \in Procs : (stop[p] = "waiting") ~> (stop[p] = "resolved")

====
